---- MODULE Spec2Model ----
(***************************************************************************)
(* nstd::queue and nstd::queue_trivial (queue.hpp): a growable queue on a  *)
(* contiguous wrap-around buffer, in a general and a trivial variant.      *)
(* One object is modelled; `variant` says which of the two structs it is.  *)
(***************************************************************************)
EXTENDS Integers, Sequences, FiniteSets, TLC

\* ---------------------------------------------------------------- bounds
\* element values are 0..MaxVal
MaxVal == 2
\* largest capacity a growth may reach
MaxCap == 4
\* largest capacity a growth may reach when only appends are made
MaxCapAppend == 8
\* the construction / destruction counters stop counting at MaxCalls
MaxCalls == 3

\* ------------------------------------------------------ program constants
\* capacity given by the first growth (capacity_ = 2)
MinCapacity == 2
\* value of a value-initialised element, T() in emplace_back
DefaultT == 0

Val == 0..MaxVal
\* the values the round-trip scenario appends
ExampleVal == {1, 2, 3, 10, 15, 17}

Variants == {"queue", "queue_trivial"}

\* no reference is held
NoRef == -1
\* the history is no prefix of the round-trip scenario
OffScript == -1

VARIABLES
    variant,    \* which struct the object is
    buffer_,    \* the heap block: a function 0..capacity_-1 -> value; <<>> is nullptr
    front_,     \* index of the oldest live element
    back_,      \* index one past the newest live element
    capacity_,  \* number of slots of buffer_
    size_,      \* number of live elements
    ref,        \* physical slot of the reference the last emplace_back returned, or NoRef
    alive,      \* FALSE once the destructor has run
    model,      \* the abstract FIFO sequence the same operations produce
    script,     \* how many steps of the round-trip scenario the history is, or OffScript
    ctor,       \* constructions of a T in a buffer slot, counted up to MaxCalls
    dtor,       \* destructor calls on a buffer slot, counted up to MaxCalls
    buffer_id,  \* identity of the block buffer_ points to: 0 is nullptr, the n-th malloc is n
    halted,     \* NotHalted, or the call that ended the process
    ret,        \* the last accessor call that returned and what it returned, or NoRet
    called      \* the destructor, callback and free calls the last operation made, in order

vars == <<variant, buffer_, front_, back_, capacity_, size_, ref, alive,
          model, script, ctor, dtor, buffer_id, halted, ret, called>>

\* the process runs
NotHalted == [fn |-> "none", arg |-> 0]
\* the last operation returned no element reference
NoRet == [fn |-> "none", arg |-> 0, slot |-> NoRef]

\* the five data members as one record
Q == [buffer |-> buffer_, front |-> front_, back |-> back_,
      capacity |-> capacity_, size |-> size_]

SetQ(q) ==
    /\ buffer_' = q.buffer
    /\ front_' = q.front
    /\ back_' = q.back
    /\ capacity_' = q.capacity
    /\ size_' = q.size

Min(a, b) == IF a < b THEN a ELSE b

\* ------------------------------------------------------------- growth
\* INT_TYPE: a signed integer type, here IntBits wide
IntBits == 5

IntMin == 0 - 2^(IntBits - 1)

IntMax == 2^(IntBits - 1) - 1

\* the INT_TYPE value a result x is stored as (arithmetic modulo 2^IntBits)
wrap(x) == ((x - IntMin) % 2^IntBits) + IntMin

\* new_capacity growing by one slot instead of doubling
new_capacity_plus_one(q) == IF q.capacity = 0 THEN MinCapacity ELSE q.capacity + 1

\* capacity_ after the doubling of should_reallocate
new_capacity(q) == IF q.capacity = 0 THEN MinCapacity ELSE wrap(q.capacity * 2)

\* the blocks malloc may hand out to a growth of q: any contents. Only the
\* slots size_ .. capacity_-1 are chosen, the copy overwrites the others
malloc(q, V) ==
    IF q.capacity = q.size THEN [q.size..(new_capacity(q) - 1) -> V] ELSE {<<>>}

\* queue::should_reallocate copying the slots in physical order
queue_should_reallocate_physical(q, buffer_new) ==
    IF q.capacity = q.size
    THEN [buffer   |-> [i \in 0..(new_capacity(q) - 1) |->
                          IF i < q.size THEN q.buffer[i] ELSE buffer_new[i]],
          front    |-> 0,
          back     |-> q.size,
          capacity |-> new_capacity(q),
          size     |-> q.size]
    ELSE q

\* queue::should_reallocate growing one append early (capacity_ <= size_ + 1)
queue_should_reallocate_early(q, buffer_new) ==
    IF q.capacity <= q.size + 1
    THEN [buffer   |-> [i \in 0..(new_capacity(q) - 1) |->
                          IF i < q.size
                          THEN q.buffer[(q.front + i) % q.size]
                          ELSE DefaultT],
          front    |-> 0,
          back     |-> q.size,
          capacity |-> new_capacity(q),
          size     |-> q.size]
    ELSE q

\* queue::should_reallocate; buffer_new is the block malloc returned
queue_should_reallocate(q, buffer_new) ==
    IF q.capacity = q.size
    THEN [buffer   |-> [i \in 0..(new_capacity(q) - 1) |->
                          IF i < q.size
                          THEN q.buffer[(q.front + i) % q.size]
                          ELSE buffer_new[i]],
          front    |-> 0,
          back     |-> q.size,
          capacity |-> new_capacity(q),
          size     |-> q.size]
    ELSE q

\* queue_trivial::should_reallocate with a memcpy one element short
trivial_should_reallocate_short(q, buffer_new) ==
    IF q.capacity = q.size
    THEN [buffer   |-> [i \in 0..(new_capacity(q) - 1) |->
                          IF i < q.size - 1 THEN q.buffer[i]
                          ELSE IF i < q.size THEN DefaultT ELSE buffer_new[i]],
          front    |-> 0,
          back     |-> q.size,
          capacity |-> new_capacity(q),
          size     |-> q.size]
    ELSE q

\* queue_trivial::should_reallocate growing one append early
trivial_should_reallocate_early(q, buffer_new) ==
    IF q.capacity <= q.size + 1
    THEN [buffer   |-> [i \in 0..(new_capacity(q) - 1) |->
                          IF i < q.size THEN q.buffer[i] ELSE DefaultT],
          front    |-> 0,
          back     |-> q.size,
          capacity |-> new_capacity(q),
          size     |-> q.size]
    ELSE q

\* queue_trivial::should_reallocate: memcpy of the first size_ slots
trivial_should_reallocate(q, buffer_new) ==
    IF q.capacity = q.size
    THEN [buffer   |-> [i \in 0..(new_capacity(q) - 1) |->
                          IF i < q.size THEN q.buffer[i] ELSE buffer_new[i]],
          front    |-> 0,
          back     |-> q.size,
          capacity |-> new_capacity(q),
          size     |-> q.size]
    ELSE q

should_reallocate(vt, q, buffer_new) ==
    IF vt = "queue" THEN queue_should_reallocate(q, buffer_new)
                    ELSE trivial_should_reallocate(q, buffer_new)

\* ------------------------------------------------------------- appends
\* advance_back with the wrap-around of back_ left out
advance_back_nowrap(q) ==
    [q EXCEPT !.back = q.back + 1, !.size = q.size + 1]

\* the tail of push_back / emplace_back: advance back_, count the element
advance_back(q) ==
    [q EXCEPT !.back = (q.back + 1) % q.capacity, !.size = q.size + 1]

\* queue::push_back and queue_trivial::push_back (same body)
push_back(vt, q, buffer_new, data) ==
    LET r == should_reallocate(vt, q, buffer_new)
    IN  advance_back([r EXCEPT !.buffer[r.back] = data])

\* queue::emplace_back: placement-new of T() at buffer_[back_]
queue_emplace_back(q, buffer_new) ==
    LET r == queue_should_reallocate(q, buffer_new)
    IN  advance_back([r EXCEPT !.buffer[r.back] = DefaultT])

\* queue_trivial::emplace_back(): the slot is not written
trivial_emplace_back(q, buffer_new) ==
    advance_back(trivial_should_reallocate(q, buffer_new))

emplace_back(vt, q, buffer_new) ==
    IF vt = "queue" THEN queue_emplace_back(q, buffer_new)
                    ELSE trivial_emplace_back(q, buffer_new)

\* the slot emplace_back returns a reference to: &buffer_[back_] after growth
emplace_slot(vt, q, buffer_new) == should_reallocate(vt, q, buffer_new).back

\* ------------------------------------------------------------- removal
\* pop that forgets to advance front_
pop_keeps_front(q) == [q EXCEPT !.size = q.size - 1]

\* pop advancing front_ without the % capacity_
pop_nowrap(q) == [q EXCEPT !.front = q.front + 1, !.size = q.size - 1]

\* queue::pop and queue_trivial::pop(), after the assert
pop(q) == [q EXCEPT !.front = (q.front + 1) % q.capacity, !.size = q.size - 1]

\* a call the queue makes on a slot, with the handles it is made under
Call(fn, slot, q) ==
    [fn |-> fn, slot |-> slot, front |-> q.front, back |-> q.back, size |-> q.size]

\* queue::pop runs buffer_[front_].~T() first; queue_trivial::pop() runs nothing
pop_calls(vt, q) == IF vt = "queue" THEN <<Call("~T", q.front, q)>> ELSE <<>>

\* the destructor calls of the pops queue::clear makes
RECURSIVE queue_clear_calls(_)
queue_clear_calls(q) ==
    IF q.size > 0 THEN pop_calls("queue", q) \o queue_clear_calls(pop(q))
                  ELSE <<>>

clear_calls(vt, q) == IF vt = "queue" THEN queue_clear_calls(q) ELSE <<>>

\* ~queue destroying buffer_[i] instead of buffer_[(front_ + i) % capacity_]
RECURSIVE queue_destructor_calls_physical(_, _)
queue_destructor_calls_physical(q, i) ==
    IF i < q.size
    THEN <<Call("~T", i, q)>> \o queue_destructor_calls_physical(q, i + 1)
    ELSE <<Call("free", NoRef, q)>>

\* ~queue from loop index i on: the destructor calls, then free(buffer_)
RECURSIVE queue_destructor_calls(_, _)
queue_destructor_calls(q, i) ==
    IF i < q.size
    THEN <<Call("~T", (q.front + i) % q.capacity, q)>> \o queue_destructor_calls(q, i + 1)
    ELSE <<Call("free", NoRef, q)>>

\* ~queue and ~queue_trivial: nothing at all when buffer_ == nullptr
destructor_calls(vt, q) ==
    IF q.capacity = 0 THEN <<>>
    ELSE IF vt = "queue" THEN queue_destructor_calls(q, 0)
    ELSE <<Call("free", NoRef, q)>>

\* queue::clear without the reset of the handles after the loop
RECURSIVE queue_clear_no_reset(_)
queue_clear_no_reset(q) ==
    IF q.size > 0 THEN queue_clear_no_reset(pop(q)) ELSE q

\* queue::clear: pop until empty, then reset the handles
RECURSIVE queue_clear(_)
queue_clear(q) ==
    IF q.size > 0 THEN queue_clear(pop(q))
                  ELSE [q EXCEPT !.front = 0, !.back = 0]

\* queue_trivial::clear: resets the handles only
trivial_clear(q) == [q EXCEPT !.front = 0, !.back = 0]

clear(vt, q) == IF vt = "queue" THEN queue_clear(q) ELSE trivial_clear(q)

\* ------------------------------------------------------------ accessors
\* assert(size_ != 0) of front, back and pop
nonempty_assert(q) == q.size # 0

\* the assert of operator[] with i > 0 for i >= 0
index_assert_positive(q, i) == i > 0 /\ i < q.size

\* assert(i >= 0 && i < size_) of operator[]
index_assert(q, i) == i >= 0 /\ i < q.size

\* physical slot of operator[](i)
index_rolling(q, i) == (q.front + i) % q.capacity

\* operator[](i), for 0 <= i < size
at(q, i) == q.buffer[index_rolling(q, i)]

\* front()
front(q) == q.buffer[q.front]

\* physical slot back() computes
back_last(q) == (q.back + (q.size - 1)) % q.capacity

\* back()
back(q) == q.buffer[back_last(q)]

\* the live elements in logical order, as operator[] returns them
Contents(q) == [i \in 1..q.size |-> at(q, i - 1)]

\* ------------------------------------------------------------ iterator
\* queue::begin: iterator(buffer_, front_, 0, capacity_)
begin(q) == [front |-> q.front, offset |-> 0, capacity |-> q.capacity]

\* queue::end: iterator(buffer_, front_, size_, capacity_)
end(q) == [front |-> q.front, offset |-> q.size, capacity |-> q.capacity]

\* iterator::operator* with front_ left out of the index
deref_slot_no_front(it) == it.offset % it.capacity

\* the slot iterator::operator* reads: (offset_ + front_) % capacity_
deref_slot(it) == (it.offset + it.front) % it.capacity

\* iterator::operator++
increment(it) == [it EXCEPT !.offset = it.offset + 1]

\* operator== of two iterators compares the offsets only
iterator_equal(a, b) == a.offset = b.offset

\* for (it = first; it != last; ++it) *it : the slots dereferenced, in order
RECURSIVE traverse(_, _)
traverse(first, last) ==
    IF iterator_equal(first, last) THEN <<>>
    ELSE <<deref_slot(first)>> \o traverse(increment(first), last)

RoundTrip ==
    << <<"push_back", 1>>, <<"push_back", 2>>, <<"emplace_back", DefaultT>>,
       <<"assign", 3>>, <<"pop", DefaultT>>, <<"pop", DefaultT>>,
       <<"push_back", 10>>, <<"push_back", 15>>, <<"push_back", 17>> >>

Track(op, v) ==
    IF script # OffScript /\ script < Len(RoundTrip) /\ RoundTrip[script + 1] = <<op, v>>
    THEN script + 1
    ELSE OffScript

Count(n, k) == Min(n + k, MaxCalls)

\* ---------------------------------------------------------------- Init
Init ==
    /\ variant \in Variants
    /\ buffer_ = <<>>
    /\ front_ = 0
    /\ back_ = 0
    /\ capacity_ = 0
    /\ size_ = 0
    /\ ref = NoRef
    /\ alive = TRUE
    /\ model = <<>>
    /\ script = 0
    /\ ctor = 0
    /\ dtor = 0
    /\ buffer_id = 0
    /\ halted = NotHalted
    /\ ret = NoRet
    /\ called = <<>>

\* the object is usable: not destroyed, process not ended
Running == alive /\ halted = NotHalted

\* the growth test of should_reallocate
reallocates(q) == q.capacity = q.size

\* the block buffer_ points to after an append
buffer_after_append == IF reallocates(Q) THEN buffer_id + 1 ELSE buffer_id

\* a growth is modelled up to capacity C
MayAppend(C) == size_ = capacity_ => (0 < new_capacity(Q) /\ new_capacity(Q) <= C)

\* ------------------------------------------------------------- actions
\* push_back(const T&) / push_back(T&&): assignment into the slot
PushBack(V, C) ==
    /\ Running /\ MayAppend(C)
    /\ \E data \in V, buffer_new \in malloc(Q, V) :
          /\ SetQ(push_back(variant, Q, buffer_new, data))
          /\ model' = Append(model, data)
          /\ script' = Track("push_back", data)
    /\ ref' = NoRef
    /\ buffer_id' = buffer_after_append
    /\ ret' = NoRet /\ called' = <<>>
    /\ UNCHANGED <<variant, alive, ctor, dtor, halted>>

\* emplace_back(): the caller keeps the returned reference
EmplaceBack(V, C) ==
    /\ Running /\ MayAppend(C)
    /\ \E buffer_new \in malloc(Q, V) :
          /\ SetQ(emplace_back(variant, Q, buffer_new))
          /\ ref' = emplace_slot(variant, Q, buffer_new)
    /\ model' = Append(model, buffer_'[ref'])
    /\ script' = Track("emplace_back", DefaultT)
    /\ ctor' = IF variant = "queue" THEN Count(ctor, 1) ELSE ctor
    /\ buffer_id' = buffer_after_append
    /\ ret' = NoRet /\ called' = <<>>
    /\ UNCHANGED <<variant, alive, dtor, halted>>

\* assignment through the reference emplace_back returned, made right away
Assign(V) ==
    /\ Running /\ ref # NoRef
    /\ \E data \in V :
          /\ buffer_' = [buffer_ EXCEPT ![ref] = data]
          /\ model' = [model EXCEPT ![Len(model)] = data]
          /\ script' = Track("assign", data)
    /\ ref' = NoRef
    /\ ret' = NoRet /\ called' = <<>>
    /\ UNCHANGED <<variant, front_, back_, capacity_, size_, alive, ctor, dtor, buffer_id, halted>>

\* pop(): the general variant runs the destructor of buffer_[front_]
Pop ==
    /\ Running /\ nonempty_assert(Q)
    /\ SetQ(pop(Q))
    /\ model' = IF model = <<>> THEN model ELSE Tail(model)
    /\ script' = Track("pop", DefaultT)
    /\ dtor' = IF variant = "queue" THEN Count(dtor, 1) ELSE dtor
    /\ ref' = NoRef
    /\ ret' = NoRet /\ called' = pop_calls(variant, Q)
    /\ UNCHANGED <<variant, alive, ctor, buffer_id, halted>>

\* clear(): the general variant pops (and destroys) every live element
Clear ==
    /\ Running
    /\ SetQ(clear(variant, Q))
    /\ model' = <<>>
    /\ script' = Track("clear", DefaultT)
    /\ dtor' = IF variant = "queue" THEN Count(dtor, size_) ELSE dtor
    /\ ref' = NoRef
    /\ ret' = NoRet /\ called' = clear_calls(variant, Q)
    /\ UNCHANGED <<variant, alive, ctor, buffer_id, halted>>

\* ~queue / ~queue_trivial: destroys the live elements (general variant,
\* buffer allocated) and frees the buffer; the members keep their values
Destroy ==
    /\ Running
    /\ alive' = FALSE
    /\ dtor' = IF variant = "queue" /\ capacity_ # 0 THEN Count(dtor, size_) ELSE dtor
    /\ ref' = NoRef
    /\ script' = OffScript
    /\ ret' = NoRet /\ called' = destructor_calls(variant, Q)
    /\ UNCHANGED <<variant, buffer_, front_, back_, capacity_, size_, model, ctor,
                   buffer_id, halted>>

\* an append whose capacity_ *= 2 does not fit INT_TYPE: the wrapped value is
\* stored, malloc(sizeof(T) * capacity_) of the converted size fails, abort()
AppendOverflow ==
    /\ Running /\ reallocates(Q) /\ new_capacity(Q) <= 0
    /\ capacity_' = new_capacity(Q)
    /\ halted' = [fn |-> "abort", arg |-> 0]
    /\ UNCHANGED <<variant, buffer_, front_, back_, size_, ref, alive, model,
                   script, ctor, dtor, buffer_id, ret, called>>

\* ------------------------------------------------ callbacks (trivial)
\* emplace_back(init) taking &buffer_[back_] before should_reallocate
trivial_emplace_back_init_stale(q, buffer_new, v) ==
    LET r == trivial_should_reallocate(q, buffer_new)
    IN  [q     |-> advance_back([r EXCEPT !.buffer[q.back] = v]),
         slot  |-> q.back,
         calls |-> <<Call("init", q.back, r)>>]

\* queue_trivial::emplace_back(init): init(*data) writes v into buffer_[back_]
\* after the growth and before back_ and size_ advance
trivial_emplace_back_init(q, buffer_new, v) ==
    LET r == trivial_should_reallocate(q, buffer_new)
    IN  [q     |-> advance_back([r EXCEPT !.buffer[r.back] = v]),
         slot  |-> r.back,
         calls |-> <<Call("init", r.back, r)>>]

\* queue_trivial::pop(deinit), after the assert: deinit(buffer_[front_])
\* writes v into the slot before front_ and size_ change
trivial_pop_deinit(q, v) ==
    [q     |-> pop([q EXCEPT !.buffer[q.front] = v]),
     calls |-> <<Call("deinit", q.front, q)>>]

\* emplace_back(init) of the trivial variant
EmplaceBackInit(V, C) ==
    /\ Running /\ variant = "queue_trivial" /\ MayAppend(C)
    /\ \E v \in V, buffer_new \in malloc(Q, V) :
          LET e == trivial_emplace_back_init(Q, buffer_new, v)
          IN  /\ SetQ(e.q)
              /\ ref' = e.slot
              /\ called' = e.calls
              /\ model' = Append(model, v)
    /\ script' = OffScript
    /\ buffer_id' = buffer_after_append
    /\ ret' = NoRet
    /\ UNCHANGED <<variant, alive, ctor, dtor, halted>>

\* pop(deinit) of the trivial variant
PopDeinit(V) ==
    /\ Running /\ variant = "queue_trivial"
    /\ IF nonempty_assert(Q)
       THEN /\ \E v \in V :
                  LET e == trivial_pop_deinit(Q, v)
                  IN  SetQ(e.q) /\ called' = e.calls
            /\ model' = IF model = <<>> THEN model ELSE Tail(model)
            /\ script' = OffScript
            /\ ref' = NoRef /\ ret' = NoRet
            /\ UNCHANGED <<variant, alive, ctor, dtor, buffer_id, halted>>
       ELSE /\ halted' = [fn |-> "pop", arg |-> 0]
            /\ UNCHANGED <<variant, buffer_, front_, back_, capacity_, size_, ref,
                           alive, model, script, ctor, dtor, buffer_id, ret, called>>

\* ------------------------------------------- failing calls and accessors
\* the arguments operator[] is called with
IndexArgs == (0 - 1)..MaxCap

\* a failed assert: the process aborts, nothing else happens
Abort(fn, arg) ==
    /\ halted' = [fn |-> fn, arg |-> arg]
    /\ UNCHANGED <<variant, buffer_, front_, back_, capacity_, size_, ref, alive,
                   model, script, ctor, dtor, buffer_id, ret, called>>

\* an accessor returns (a reference to a slot, or arg by value) and changes nothing
Return(fn, arg, slot) ==
    /\ ret' = [fn |-> fn, arg |-> arg, slot |-> slot]
    /\ called' = <<>>
    /\ UNCHANGED <<variant, buffer_, front_, back_, capacity_, size_, ref, alive,
                   model, script, ctor, dtor, buffer_id, halted>>

\* pop() on an empty queue
PopAssert ==
    /\ Running /\ ~nonempty_assert(Q)
    /\ Abort("pop", 0)

\* front()
Front ==
    /\ Running
    /\ IF nonempty_assert(Q) THEN Return("front", 0, front_) ELSE Abort("front", 0)

\* back()
Back ==
    /\ Running
    /\ IF nonempty_assert(Q) THEN Return("back", 0, back_last(Q)) ELSE Abort("back", 0)

\* size(): returns size_
Size ==
    /\ Running
    /\ Return("size", size_, NoRef)

\* empty(): returns size_ == 0
Empty ==
    /\ Running
    /\ Return("empty", IF size_ = 0 THEN 1 ELSE 0, NoRef)

\* operator[](i)
Index ==
    /\ Running
    /\ \E i \in IndexArgs :
          IF index_assert(Q, i) THEN Return("operator[]", i, index_rolling(Q, i))
                                ELSE Abort("operator[]", i)

\* -------------------------------------------------------- slot accesses
\* a slot access: the index used and the capacity of the block it indexes
Access(slot, capacity) == [slot |-> slot, capacity |-> capacity]

\* the slot and the block an append writes, after should_reallocate
append_slot(q) == IF reallocates(q) THEN q.size ELSE q.back

append_capacity(q) == IF reallocates(q) THEN new_capacity(q) ELSE q.capacity

\* should_reallocate: the reads of the old block and the writes of the new
growth_reads(vt, q) ==
    IF reallocates(q)
    THEN {Access(IF vt = "queue" THEN (q.front + i) % q.size ELSE i, q.capacity) :
            i \in 0..(q.size - 1)}
    ELSE {}

growth_writes(q) ==
    IF reallocates(q) THEN {Access(i, new_capacity(q)) : i \in 0..(q.size - 1)}
                      ELSE {}

\* the slots the iterators between begin() and end() dereference
iterator_accesses(q) ==
    LET slots == traverse(begin(q), end(q))
    IN  {Access(slots[k], q.capacity) : k \in 1..Len(slots)}

\* the slots on which a call log runs a destructor
call_accesses(calls, q) ==
    {Access(calls[k].slot, q.capacity) : k \in {j \in 1..Len(calls) : calls[j].fn = "~T"}}

\* every divisor of a % some operation of the interface evaluates on q
moduli(vt, q) ==
    UNION { IF vt = "queue" /\ reallocates(q) /\ q.size > 0 THEN {q.size} ELSE {},
            {append_capacity(q)},
            IF nonempty_assert(q) THEN {q.capacity} ELSE {} }

\* every slot some operation of the interface reads or writes on q
accesses(vt, q) ==
    UNION { growth_reads(vt, q),
            growth_writes(q),
            {Access(append_slot(q), append_capacity(q))},
            IF nonempty_assert(q)
            THEN {Access(q.front, q.capacity), Access(back_last(q), q.capacity)}
                 \cup {Access(index_rolling(q, i), q.capacity) :
                         i \in {j \in IndexArgs : index_assert(q, j)}}
                 \cup {Access(pop(q).front, q.capacity)}
            ELSE {},
            iterator_accesses(q),
            call_accesses(IF nonempty_assert(q) THEN pop_calls(vt, q) ELSE <<>>, q),
            call_accesses(clear_calls(vt, q), q),
            call_accesses(destructor_calls(vt, q), q) }

Next ==
    \/ PushBack(Val, MaxCap)
    \/ EmplaceBack(Val, MaxCap)
    \/ Assign(Val)
    \/ Pop
    \/ Clear
    \/ Destroy

\* every operation, any order
Spec == Init /\ [][Next]_vars

\* every operation and accessor, failing calls included
NextCalls ==
    \/ PushBack(Val, MaxCap)
    \/ EmplaceBack(Val, MaxCap)
    \/ Assign(Val)
    \/ Pop
    \/ PopAssert
    \/ Clear
    \/ Front
    \/ Back
    \/ Index
    \/ Size
    \/ Empty
    \/ Destroy

SpecCalls == Init /\ [][NextCalls]_vars

\* the trivial variant with its callback forms
InitTrivial == Init /\ variant = "queue_trivial"

NextTrivial ==
    \/ PushBack(Val, MaxCap)
    \/ EmplaceBack(Val, MaxCap)
    \/ EmplaceBackInit(Val, MaxCap)
    \/ Assign(Val)
    \/ Pop
    \/ PopDeinit(Val)
    \/ Clear
    \/ Destroy

SpecTrivial == InitTrivial /\ [][NextTrivial]_vars

\* appends and pops up to the largest capacity INT_TYPE holds
NextInt ==
    \/ PushBack({DefaultT}, IntMax)
    \/ EmplaceBack({DefaultT}, IntMax)
    \/ Pop
    \/ AppendOverflow

SpecInt == Init /\ [][NextInt]_vars

\* appends and pops only
NextAppendPop ==
    \/ PushBack(Val, MaxCap)
    \/ EmplaceBack(Val, MaxCap)
    \/ Assign(Val)
    \/ Pop

SpecAppendPop == Init /\ [][NextAppendPop]_vars

\* appends only, through one more growth
NextAppend ==
    \/ PushBack(Val, MaxCapAppend)
    \/ EmplaceBack(Val, MaxCapAppend)
    \/ Assign(Val)

SpecAppend == Init /\ [][NextAppend]_vars

\* every operation, on the values of the round-trip scenario
NextExample ==
    \/ PushBack(ExampleVal, MaxCap)
    \/ EmplaceBack(ExampleVal, MaxCap)
    \/ Assign(ExampleVal)
    \/ Pop
    \/ Clear
    \/ Destroy

\* the scenario is one of the general variant
InitExample == Init /\ variant = "queue"

SpecExample == InitExample /\ [][NextExample]_vars

\* ======================================================================
\* Properties
\* ======================================================================

\* C1: in both variants, after any sequence of appends and pops,
\* 0 <= size <= capacity and, when capacity > 0, back = (front + size) mod
\* capacity.  (SpecAppendPop)
C1_SizeAndBack ==
    /\ 0 <= size_
    /\ size_ <= capacity_
    /\ (capacity_ > 0 => back_ = (front_ + size_) % capacity_)

\* the live range wraps: the newest element lies before the oldest
C1_Witness == capacity_ = 4 /\ size_ = 3 /\ front_ = 3 /\ back_ = 2

\* C2: the general variant is a FIFO sequence: after any sequence of
\* push_back, emplace_back + assignment, pop and clear, size() is the length
\* of the abstract sequence, operator[](i) its i-th element and front() its
\* first element.
C2_Fifo ==
    (variant = "queue" /\ alive) =>
        /\ size_ = Len(model)
        /\ \A i \in 0..(size_ - 1) : at(Q, i) = model[i + 1]
        /\ (size_ > 0 => front(Q) = Head(model))

\* a full, wrapped buffer after two growths, holding distinct values
C2_Witness ==
    /\ variant = "queue" /\ alive
    /\ capacity_ = 4 /\ size_ = 4 /\ front_ = 2
    /\ model = <<1, 2, 0, 1>>

\* C3: in both variants, with size > 0, back() is the element at logical
\* position size - 1, the one operator[](size - 1) returns.
C3_BackIsNewest ==
    (alive /\ size_ > 0) =>
        /\ back_last(Q) = index_rolling(Q, size_ - 1)
        /\ back(Q) = at(Q, size_ - 1)

\* C4: in the trivial variant a growth leaves every live element at its
\* logical position: the element that was at logical position i is at
\* physical slot i of the new buffer.  (SpecAppendPop)
C4_TrivialGrowthLinearises ==
    [][(variant = "queue_trivial" /\ capacity_' # capacity_) =>
          \A i \in 0..(size_ - 1) :
              /\ buffer_'[i] = at(Q, i)
              /\ at(Q', i) = at(Q, i)]_vars

\* C5: in the trivial variant clear() leaves size = 0 and front = back = 0
\* with the capacity unchanged, so that pop, front, back and operator[] are
\* then precondition violations.
C5_TrivialClearEmpties ==
    [][(variant = "queue_trivial" /\ Clear) =>
          /\ size_' = 0
          /\ front_' = 0 /\ back_' = 0
          /\ capacity_' = capacity_]_vars

\* C6: in the general variant the constructions minus the destructions of
\* elements in buffer slots equal the size, and are zero after the
\* destructor.  (stated while both counters are below MaxCalls, where they
\* are exact)
C6_LifecycleBalance ==
    (variant = "queue" /\ ctor < MaxCalls /\ dtor < MaxCalls) =>
        ctor - dtor = (IF alive THEN size_ ELSE 0)

\* C7: in both variants an append grows the buffer iff size = capacity
\* just before it, a growth sets capacity to 2 from 0 and to twice the old
\* capacity otherwise, and no operation makes capacity smaller.
C7_GrowthExactlyWhenFull ==
    [][/\ capacity_' >= capacity_
       /\ (capacity_' # capacity_ =>
              /\ size_' = size_ + 1
              /\ size_ = capacity_
              /\ capacity_' = (IF capacity_ = 0 THEN 2 ELSE 2 * capacity_))
       /\ ((size_' = size_ + 1 /\ size_ = capacity_) => capacity_' # capacity_)]_vars

\* both growths happened and the buffer is not full
C7_Witness == capacity_ = 4 /\ size_ = 3 /\ front_ = 0 /\ variant = "queue_trivial"

\* C8: in both variants, n appends to a fresh queue with no pop or clear
\* give size() = n and operator[](i) = v_i, whatever growths occurred.
\* (SpecAppend)
C8_InsertionOrder ==
    /\ size_ = Len(model)
    /\ \A i \in 0..(size_ - 1) : at(Q, i) = model[i + 1]

\* five appends, through three growths
C8_Witness ==
    /\ variant = "queue_trivial"
    /\ capacity_ = 8 /\ size_ = 5
    /\ model = <<1, 2, 0, 2, 1>>

\* C9 as stated: after push_back(1), push_back(2), emplace_back() = 3, pop(),
\* pop() the queue is empty, and after push_back(10), push_back(15),
\* push_back(17) it holds 10, 15, 17.  (SpecExample)
C9_RoundTripAsStated ==
    variant = "queue" =>
        /\ (script = 6 => size_ = 0)
        /\ (script = 9 => size_ = 3 /\ Contents(Q) = <<10, 15, 17>>)

\* C9 amended: after push_back(1), push_back(2), emplace_back() = 3, pop(),
\* pop() the queue holds the one element 3, and after push_back(10),
\* push_back(15), push_back(17) it holds 3, 10, 15, 17.  (SpecExample)
C9_RoundTrip ==
    variant = "queue" =>
        /\ (script = 6 => size_ = 1 /\ Contents(Q) = <<3>>)
        /\ (script = 9 => size_ = 4 /\ Contents(Q) = <<3, 10, 15, 17>>)

\* the whole scenario has run
C9_Witness == variant = "queue" /\ script = 9 /\ alive

\* C10: in both variants an append made with capacity > 0 and size <
\* capacity does not grow and stores the element at physical slot
\* back = (front + size) mod capacity, changing no other slot.
C10_AppendReusesSlot ==
    [][(capacity_ > 0 /\ size_ < capacity_ /\ size_' = size_ + 1) =>
          /\ capacity_' = capacity_
          /\ back_ = (front_ + size_) % capacity_
          /\ \A i \in 0..(capacity_ - 1) : i # back_ => buffer_'[i] = buffer_[i]
          /\ at(Q', size_) = buffer_'[back_]]_vars

\* C11: pop(), front() and back() on size = 0 and operator[](i) with i < 0
\* or i >= size abort without returning and without changing front, back,
\* size, capacity or a buffer slot; with the precondition satisfied they
\* return and never abort.  (SpecCalls)
C11_AssertsAbort ==
    /\ [](halted # NotHalted =>
            /\ halted.fn \in {"pop", "front", "back"} => size_ = 0
            /\ halted.fn = "operator[]" => (halted.arg < 0 \/ halted.arg >= size_))
    /\ [](ret # NoRet =>
            /\ ret.fn \in {"front", "back"} => size_ # 0
            /\ ret.fn = "operator[]" => (0 <= ret.arg /\ ret.arg < size_))
    /\ [][halted' # halted =>
            /\ UNCHANGED <<buffer_, front_, back_, capacity_, size_, ret>>
            /\ (size_ = 0 \/ halted'.fn = "operator[]")]_vars

\* operator[](size) on a queue of two elements aborted
C11_Witness == halted = [fn |-> "operator[]", arg |-> 2] /\ size_ = 2

\* C12: in the general variant a traversal from begin() to end() makes
\* exactly size dereferences, the k-th of the element operator[](k) returns;
\* on an empty queue begin() == end() and nothing is dereferenced.
C12_TraversalInOrder ==
    (variant = "queue" /\ alive) =>
        LET slots == traverse(begin(Q), end(Q))
        IN  /\ Len(slots) = size_
            /\ \A k \in 0..(size_ - 1) :
                  /\ slots[k + 1] = index_rolling(Q, k)
                  /\ buffer_[slots[k + 1]] = at(Q, k)
            /\ (size_ = 0 => iterator_equal(begin(Q), end(Q)))

\* a traversal that wraps past the end of the buffer
C12_Witness ==
    /\ variant = "queue" /\ alive
    /\ capacity_ = 4 /\ front_ = 3 /\ size_ = 3
    /\ traverse(begin(Q), end(Q)) = <<3, 0, 1>>

\* C13: in the general variant clear() on n > 0 elements runs the destructor
\* of each live element once and of no other slot, front to back, and ends
\* with size = 0 and front = back = 0; an append runs no destructor, and the
\* elements appended after the clear are the only elements of the queue (the
\* abstract sequence restarts empty at clear).
C13_ClearDestroysLive ==
    /\ [][(variant = "queue" /\ Clear /\ size_ > 0) =>
            /\ Len(called') = size_
            /\ \A k \in 0..(size_ - 1) :
                  /\ called'[k + 1].fn = "~T"
                  /\ called'[k + 1].slot = index_rolling(Q, k)
            /\ size_' = 0 /\ front_' = 0 /\ back_' = 0
            /\ model' = <<>>]_vars
    /\ [][(variant = "queue" /\ size_' = size_ + 1) =>
            /\ called' = <<>>
            /\ dtor' = dtor]_vars
    /\ []((variant = "queue" /\ alive) =>
            /\ size_ = Len(model)
            /\ Contents(Q) = model)

\* clear() has just destroyed three elements of a wrapped live range
C13_Witness ==
    /\ variant = "queue" /\ alive
    /\ size_ = 0 /\ front_ = 0 /\ back_ = 0 /\ capacity_ = 4
    /\ Len(called) = 3
    /\ called[1].slot = 3 /\ called[2].slot = 0 /\ called[3].slot = 1

\* C14: destroying a general queue runs the destructor of exactly the size
\* live elements, once each, in the order front, front+1, ... (mod capacity),
\* and releases the buffer only after all of them; when no buffer was ever
\* allocated it runs no destructor and frees nothing.
C14_DestructorOrder ==
    [][(variant = "queue" /\ Destroy) =>
          IF buffer_id = 0
          THEN called' = <<>>
          ELSE /\ Len(called') = size_ + 1
               /\ \A k \in 0..(size_ - 1) :
                     /\ called'[k + 1].fn = "~T"
                     /\ called'[k + 1].slot = index_rolling(Q, k)
               /\ called'[size_ + 1].fn = "free"]_vars

\* a queue with a wrapped live range of three elements has been destroyed
C14_Witness ==
    /\ variant = "queue" /\ ~alive
    /\ size_ = 3 /\ front_ = 2 /\ capacity_ = 4
    /\ Len(called) = 4
    /\ called[1].slot = 2 /\ called[2].slot = 3 /\ called[3].slot = 0
    /\ called[4].fn = "free"

\* C15: in the general variant, whenever the growth step runs, size equals
\* the capacity before doubling, so (front + i) mod size is the old slot of
\* logical position i; the step moves that element to slot i of the new
\* buffer and ends with front = 0 and back = size, so every live element
\* keeps its logical position and value.
C15_GrowthMovesInOrder ==
    [][(variant = "queue" /\ capacity_' # capacity_) =>
          /\ size_ = capacity_
          /\ \A i \in 0..(size_ - 1) :
                /\ (front_ + i) % size_ = index_rolling(Q, i)
                /\ buffer_'[i] = at(Q, i)
                /\ at(Q', i) = at(Q, i)
          /\ \A b \in malloc(Q, Val) :
                LET r == queue_should_reallocate(Q, b)
                IN  r.front = 0 /\ r.back = size_ /\ r.size = size_
          /\ front_' = 0
          /\ back_' = (size_ + 1) % capacity_']_vars

\* a growth from capacity 2 to 4 made with front = 1 kept the order 1, 2
C15_Witness ==
    /\ variant = "queue" /\ alive
    /\ capacity_ = 4 /\ size_ = 3 /\ front_ = 0 /\ back_ = 3
    /\ buffer_id = 2
    /\ model = <<1, 2, 2>>
    /\ dtor = 1

\* C16: in both variants a fresh queue has size 0, capacity 0 and no buffer;
\* the first append allocates a buffer of capacity 2; and only an append made
\* with size = capacity replaces the buffer: pop, clear, front, back,
\* operator[], size, empty and an append made with size < capacity leave the
\* capacity and the identity of the buffer unchanged.  (SpecCalls)
C16_OnlyFullAppendReallocates ==
    /\ (size_ = 0 /\ capacity_ = 0 /\ buffer_id = 0 /\ buffer_ = <<>>)
    /\ [](buffer_id = 0 <=> capacity_ = 0)
    /\ [][(buffer_id = 0 /\ size_' = size_ + 1) =>
            (capacity_' = 2 /\ buffer_id' = 1)]_vars
    /\ [][(buffer_id' # buffer_id \/ capacity_' # capacity_) =>
            /\ size_' = size_ + 1
            /\ size_ = capacity_
            /\ buffer_id' # buffer_id
            /\ capacity_' # capacity_]_vars
    /\ [][(Pop \/ Clear \/ Front \/ Back \/ Index \/ Size \/ Empty
             \/ (size_' = size_ + 1 /\ size_ < capacity_)) =>
            (capacity_' = capacity_ /\ buffer_id' = buffer_id)]_vars

\* the second buffer is in use and has been read after an append that kept it
C16_Witness ==
    /\ buffer_id = 2 /\ capacity_ = 4 /\ size_ = 4
    /\ ret = [fn |-> "operator[]", arg |-> 3, slot |-> 3]
    /\ variant = "queue_trivial"

\* C17: in both variants emplace_back() increases size by exactly 1 and
\* returns a reference to the slot at logical position size - 1 after the
\* call, and a value written through the reference is the value then read at
\* that logical position.
C17_EmplaceReturnsNewest ==
    /\ [][EmplaceBack(Val, MaxCap) =>
            /\ size_' = size_ + 1
            /\ ref' = index_rolling(Q', size_' - 1)]_vars
    /\ [][Assign(Val) =>
            /\ ref = index_rolling(Q, size_ - 1)
            /\ \E data \in Val : at(Q', size_ - 1) = data /\ buffer_'[ref] = data]_vars

\* C18: in the trivial variant emplace_back(init) calls init once, on the
\* slot at index back (after any growth) and before back and size advance;
\* pop(deinit) calls deinit once, on the slot at index front and before front
\* and size change; emplace_back() that does not grow changes no buffer slot,
\* so the appended slot holds what it held before.  (SpecTrivial)
C18_CallbacksOnce ==
    /\ [][EmplaceBackInit(Val, MaxCap) =>
            LET b == IF size_ = capacity_ THEN size_ ELSE back_
            IN  /\ Len(called') = 1
                /\ called'[1] = [fn |-> "init", slot |-> b, front |-> front_',
                                 back |-> b, size |-> size_]
                /\ ref' = b
                /\ back_' = (b + 1) % capacity_'
                /\ size_' = size_ + 1]_vars
    /\ [][(PopDeinit(Val) /\ size_ # 0) =>
            /\ Len(called') = 1
            /\ called'[1] = [fn |-> "deinit", slot |-> front_, front |-> front_,
                             back |-> back_, size |-> size_]
            /\ front_' = (front_ + 1) % capacity_
            /\ size_' = size_ - 1
            /\ \A i \in 0..(capacity_ - 1) : i # front_ => buffer_'[i] = buffer_[i]]_vars
    /\ [][(EmplaceBack(Val, MaxCap) /\ size_ < capacity_) =>
            /\ buffer_' = buffer_
            /\ called' = <<>>
            /\ ref' = back_
            /\ buffer_'[ref'] = buffer_[back_]]_vars

\* init ran on the first slot of the grown buffer that the copy left free
C18_Witness ==
    /\ capacity_ = 4 /\ size_ = 3 /\ back_ = 3 /\ front_ = 0
    /\ Len(called) = 1
    /\ called[1].fn = "init" /\ called[1].slot = 2 /\ called[1].size = 2
    /\ dtor = 0 /\ ref = 2

\* C19: in both variants, in every state of a live queue and for every
\* operation whose precondition holds (push_back, emplace_back, pop, clear,
\* front, back, operator[], iterator dereference, growth, destructor), no
\* modulo has a zero divisor and every slot read or written has an index in
\* [0, capacity) of the block it addresses; growth reads the old block only
\* within its old capacity.
C19_AccessesInBounds ==
    alive =>
        /\ \A d \in moduli(variant, Q) : d # 0
        /\ \A a \in accesses(variant, Q) : 0 <= a.slot /\ a.slot < a.capacity

\* a full, wrapped general queue: the next append grows and reads every old slot
C19_Witness ==
    /\ variant = "queue" /\ alive
    /\ capacity_ = 4 /\ size_ = 4 /\ front_ = 3
    /\ Cardinality(growth_reads(variant, Q)) = 4
    /\ Cardinality(accesses(variant, Q)) = 9

\* C20: with INT_TYPE a signed integer w bits wide, while the queue holds
\* fewer than 2^(w-1) elements the stored capacity is never negative, front,
\* back and size stay within [0, capacity], and the capacity a growth stores
\* is positive and strictly greater than size.  (SpecInt)
C20_CapacityNeverOverflows ==
    /\ [](size_ < 2^(IntBits - 1) =>
            /\ capacity_ >= 0
            /\ {front_, back_, size_} \subseteq 0..capacity_)
    /\ [][(size_ < 2^(IntBits - 1) /\ capacity_' # capacity_) =>
            (capacity_' > 0 /\ capacity_' > size_')]_vars

====
